---- MODULE Spec2Model ----
(***************************************************************************)
(* Pika ring-buffer engines (ring_buffer.hpp / ring_buffer.cpp):           *)
(*   RingBufferLockProtected : mutex + two condition variables (MPMC)      *)
(*   RingBufferLockFree      : atomic head/tail with one sentinel (SPSC)   *)
(* Every thread is a producer calling PushFront or a consumer calling      *)
(* PopBack; the position of each call is kept in pc.                       *)
(*                                                                         *)
(* pthread primitives on initialized objects are taken not to fail, so     *)
(* the error branch of ConditionVariable::Wait (status != 0) is not taken. *)
(* Atomics are sequentially consistent in the model.                       *)
(*                                                                         *)
(* Channel rendezvous (channel_internal.hpp, channel_header.hpp,           *)
(* backing_storage.cpp): endpoints of one channel name run Create,         *)
(* Connect, IsConnected and their destructor over the shared               *)
(* ChannelHeader.  Spec follows the calls on one engine                    *)
(* (channel_type = "none"), RendezvousSpec the rendezvous of the endpoints *)
(* (engine = "none").                                                      *)
(***************************************************************************)
EXTENDS Integers, Sequences, FiniteSets, TLC

\* ---------------------------------------------------------------- bounds
MaxQueueLength == 2
MaxCalls == 4
MaxLockFreeCalls == 6
MaxElementWords == 3
MaxAlignmentLog2 == 9

\* ------------------------------------------------------------- constants
INFINITE_TIMEOUT == 2147483647
\* pthread_mutex_timedlock rejects a timespec whose tv_nsec is not below this.
TvNsecLimit == 1000000000
Timeouts == {0, 1000, TvNsecLimit, INFINITE_TIMEOUT}

Producers == {"p1", "p2"}
Consumers == {"c1", "c2"}
Threads == Producers \cup Consumers
NoThread == "none"
NoRecord == <<NoThread, 0>>

\* Endpoints of the channel rendezvous and the role each is created in.
Endpoints == {"e1", "e2", "e3"}
Role(e) == IF e = "e2" THEN "consumer" ELSE "producer"

VARIABLES
    engine,                   \* "locked" (RingBufferLockProtected) or "lockfree"
    m_queue_length,
    m_internal_queue_length,  \* lock-free only: m_queue_length + 1
    m_ring_buffer,            \* slot index -> record stored in the slot
    m_write_index, m_read_index, m_count,     \* locked engine
    m_head, m_tail,                           \* lock-free engine
    m_mutex,                  \* thread that holds the engine mutex, or NoThread
    m_not_full_condition_variable,   \* threads blocked in pthread_cond_wait
    m_not_empty_condition_variable,
    pc,                       \* position of each thread inside its call
    timeout_duration,         \* argument of the call in progress
    element,                  \* producer: record being sent; consumer: destination buffer
    current,                  \* lock-free local: current_tail / current_head;
                              \* locked zero-copy: the slot Get*ElementPtr returned
    expired,                  \* lock-free: the busy-wait ended on the timer, not on the index
    result,                   \* outcome of the thread's last returned call
    ncalls,                   \* number of calls issued so far, by all threads
    sent,                     \* records of successful PushFronts, in the order they took effect
    received,                 \* <<record, consumer>> of successful PopBacks, in that order
    any_finite,               \* some call was issued with a finite timeout
    layout,                   \* arguments and result of one GetBufferSize evaluation
    channel_name,             \* ChannelParameters::channel_name, a sequence of characters
    channel_type,             \* "InterProcess", "InterThread", or "none"
    named_object,             \* object the channel name resolves to, or NoObject
    nobjects,                 \* objects created under the name so far
    object_size,              \* object -> size in bytes (0: created, not yet sized)
    header,                   \* object -> the ChannelHeader at its start
    sem,                      \* value of the named semaphore (the token)
    ep,                       \* endpoint -> position in Create / Connect / destructor
    params,                   \* endpoint -> parameters passed to Create
    m_storage,                \* endpoint -> object opened / mapped, or NoObject
    st_size,                  \* endpoint -> size fstat reported inside Initialize
    status,                   \* endpoint -> outcome of Create
    connected,                \* endpoint -> Connect has returned
    is_connected,             \* <<endpoint, value>> of the IsConnected that returned last
    initialized               \* object -> number of times registered was set

engine_vars == <<engine, m_queue_length, m_internal_queue_length, m_ring_buffer,
                 m_write_index, m_read_index, m_count, m_head, m_tail>>
sync_vars == <<m_mutex, m_not_full_condition_variable, m_not_empty_condition_variable>>
thread_vars == <<pc, timeout_duration, element, current, expired, result, ncalls>>
history_vars == <<sent, received, any_finite>>
ring_vars == <<engine_vars, sync_vars, thread_vars, history_vars>>
channel_vars == <<layout, channel_name, channel_type, named_object, nobjects, object_size, header, sem, ep, params,
                  m_storage, st_size, status, connected, is_connected, initialized>>
vars == <<ring_vars, channel_vars>>

\* The lock-free engine is used by one producer and one consumer only.
Active(t) == engine = "locked" \/ t \in {"p1", "c1"}

\* Number of successful PushFronts of producer p so far.
SentBy(p) == Cardinality({i \in 1..Len(sent) : sent[i][1] = p})

\* The record a producer passes: its next unsent record (a call that failed is
\* repeated with the same record).
NextRecord(p) == <<p, SentBy(p) + 1>>

\* ------------------------------------------------------ channel rendezvous
\* ChannelHeader and the endpoints' Create / Connect / destructor
\* (channel_internal.hpp, channel_header.hpp, backing_storage.cpp).
\* All endpoints use one channel name; the backing object is a POSIX shared
\* memory object (InterProcess) or an entry of the static buffer map
\* (InterThread).
NoObject == 0
Objects == 1..Cardinality(Endpoints)

\* sizeof(ChannelHeader<RingBufferLockProtected>) and
\* sizeof(ChannelHeader<RingBufferLockFree>) (x86-64, glibc).
SizeofHeaderLockProtected == 256
SizeofHeaderLockFree == 96
SizeofChannelHeader(spsc) == IF spsc THEN SizeofHeaderLockFree ELSE SizeofHeaderLockProtected

\* ChannelParameters together with sizeof / alignof of the record type.
BaseParameters ==
    [queue_size |-> 1, element_size |-> 192, element_alignment |-> 64,
     single_producer_single_consumer_mode |-> FALSE]
ParameterChoices ==
    {BaseParameters,
     [BaseParameters EXCEPT !.queue_size = 2],
     [BaseParameters EXCEPT !.element_size = 384],
     [BaseParameters EXCEPT !.element_alignment = 32],
     [BaseParameters EXCEPT !.single_producer_single_consumer_mode = TRUE]}

\* The parameters endpoint e may pass to Create: the consumer tries every
\* choice, the producers pass the base parameters.
ParametersOf(e) == IF Role(e) = "consumer" THEN ParameterChoices ELSE {BaseParameters}

\* GetRingBufferSlotsOffset<RingBuffer>(element_alignment).
GetRingBufferSlotsOffset(spsc, element_alignment) ==
    IF element_alignment < SizeofChannelHeader(spsc)
    THEN ((SizeofChannelHeader(spsc) \div element_alignment) + 1) * element_alignment
    ELSE element_alignment

\* GetBufferSize<RingBuffer>: the lock-free engine has one slot more.
GetBufferSize(p) ==
    GetRingBufferSlotsOffset(p.single_producer_single_consumer_mode, p.element_alignment)
        + (IF p.single_producer_single_consumer_mode THEN p.queue_size + 1 ELSE p.queue_size)
            * p.element_size

\* The PIKA_ASSERT of GetRingBufferSlotsOffset: element_alignment % 2 == 0.
\* When it fails the process traps (__builtin_trap).
AlignmentAssertion(element_alignment) == element_alignment % 2 = 0

\* No GetBufferSize evaluation is being followed.
NoLayout ==
    [queue_size |-> 0, element_size |-> 0, element_alignment |-> 0,
     single_producer_single_consumer_mode |-> FALSE, state |-> "none", offset |-> 0, size |-> 0]

\* The arguments GetBufferSize may get in CreateBackingStorage: sizeof and
\* alignof of a record type (the alignment a power of two, the size a multiple
\* of it), the queue size and the engine.
LayoutArguments ==
    {[NoLayout EXCEPT !.queue_size = q, !.element_size = k * (2 ^ a),
                      !.element_alignment = 2 ^ a,
                      !.single_producer_single_consumer_mode = m, !.state = "called"] :
        q \in 1..MaxQueueLength, k \in 1..MaxElementWords, a \in 0..MaxAlignmentLog2,
        m \in BOOLEAN}

\* A header in zero-filled memory / after `new (header) ChannelHeader {}`.
EmptyHeader ==
    [registered |-> FALSE, producer_count |-> 0, consumer_count |-> 0,
     single_producer_single_consumer_mode |-> FALSE,
     queue_length |-> 0, element_size_in_bytes |-> 0, element_alignment |-> 0]

\* The header after placement new, the mode assignment and ring_buffer.Initialize
\* with the parameters p.
PreparedHeader(p, ok) ==
    [EmptyHeader EXCEPT
        !.single_producer_single_consumer_mode = p.single_producer_single_consumer_mode,
        !.queue_length = p.queue_size,
        !.element_size_in_bytes = p.element_size,
        !.element_alignment = p.element_alignment,
        !.registered = ok]

\* Outcomes of ring_buffer.Initialize: RingBufferLockFree::Initialize always
\* succeeds; RingBufferLockProtected::initialize fails when the slot region is
\* not aligned to element_alignment (the vector of an inter-thread channel is
\* aligned as the allocator returns it) or when a pthread object cannot be set up.
RingBufferInitialize(p) ==
    IF p.single_producer_single_consumer_mode THEN {TRUE} ELSE {TRUE, FALSE}

\* Variant of Registered that takes a header for set up once an endpoint is
\* counted in it.
Registered_ByCount(h) == h.producer_count # 0 \/ h.consumer_count # 0

\* The test PrepareHeader makes under the token: header->registered.load().
Registered(h) == h.registered

\* The four comparisons PrepareHeader makes against a registered header.
Validate(h, p) ==
    /\ p.queue_size = h.queue_length
    /\ p.element_size = h.element_size_in_bytes
    /\ p.element_alignment = h.element_alignment
    /\ p.single_producer_single_consumer_mode = h.single_producer_single_consumer_mode

\* The header of the region endpoint e has mapped.
Header(e) == header[m_storage[e]]

\* The counter of the peer role of e in header h.
PeerCount(e, h) == IF Role(e) = "producer" THEN h.consumer_count ELSE h.producer_count

\* fetch_add(1) / fetch_sub(1) on the counter of e's role.  The counters are
\* kept as mathematical integers: a value below 0 stands for a uint64 that has
\* wrapped around.

\* Variant of FetchAdd that counts the endpoint in the peer role.
FetchAdd_PeerRole(e, h) ==
    IF Role(e) = "producer"
    THEN [h EXCEPT !.consumer_count = @ + 1]
    ELSE [h EXCEPT !.producer_count = @ + 1]

FetchAdd(e, h) ==
    IF Role(e) = "producer"
    THEN [h EXCEPT !.producer_count = @ + 1]
    ELSE [h EXCEPT !.consumer_count = @ + 1]

\* Variant of FetchSub that leaves the counter as it is.
FetchSub_Skipped(e, h) == h

FetchSub(e, h) ==
    IF Role(e) = "producer"
    THEN [h EXCEPT !.producer_count = @ - 1]
    ELSE [h EXCEPT !.consumer_count = @ - 1]

\* --------------------------------------------------------------- Init
\* No call has been issued on the engine.
NoCalls ==
    /\ m_internal_queue_length = m_queue_length + 1
    /\ m_ring_buffer = [i \in 0..MaxQueueLength + 1 |-> NoRecord]
    /\ m_write_index = 0 /\ m_read_index = 0 /\ m_count = 0
    /\ m_head = 0 /\ m_tail = 0
    /\ m_mutex = NoThread
    /\ m_not_full_condition_variable = {}
    /\ m_not_empty_condition_variable = {}
    /\ pc = [t \in Threads |-> "idle"]
    /\ timeout_duration = [t \in Threads |-> INFINITE_TIMEOUT]
    /\ element = [t \in Threads |-> NoRecord]
    /\ current = [t \in Threads |-> 0]
    /\ expired = [t \in Threads |-> FALSE]
    /\ result = [t \in Threads |-> "none"]
    /\ ncalls = 0
    /\ sent = <<>>
    /\ received = <<>>
    /\ any_finite = FALSE

\* The channel names the endpoints may use, as sequences of characters: one
\* that begins with '/' and one that does not.
ChannelNames == {<<"/", "t">>, <<"t">>}

\* PrepareHeader: semaphore_name = channel_name + "_inter_thread" or
\* "_inter_process".
SemaphoreName ==
    channel_name \o (IF channel_type = "InterThread"
                     THEN <<"_", "i", "n", "t", "e", "r", "_", "t", "h", "r", "e", "a", "d">>
                     ELSE <<"_", "i", "n", "t", "e", "r", "_", "p", "r", "o", "c", "e", "s", "s">>)

\* The test of Semaphore::New and InterProcessSharedBuffer::Initialize on a
\* name: name.at(0) == '/'.
BeginsWithSlash(name) == name[1] = "/"

\* No endpoint has called Create: the channel name resolves to nothing and the
\* named semaphore has its initial value 1.
NoEndpoints ==
    /\ named_object = NoObject
    /\ nobjects = 0
    /\ object_size = [o \in Objects |-> 0]
    /\ header = [o \in Objects |-> EmptyHeader]
    /\ sem = 1
    /\ ep = [e \in Endpoints |-> "idle"]
    /\ params = [e \in Endpoints |-> BaseParameters]
    /\ m_storage = [e \in Endpoints |-> NoObject]
    /\ st_size = [e \in Endpoints |-> 0]
    /\ status = [e \in Endpoints |-> "none"]
    /\ connected = [e \in Endpoints |-> FALSE]
    /\ is_connected = <<"none", "none">>
    /\ initialized = [o \in Objects |-> 0]

\* State after RingBufferLockProtected::initialize / RingBufferLockFree::Initialize.
Init ==
    /\ engine \in {"locked", "lockfree"}
    /\ m_queue_length \in 1..MaxQueueLength
    /\ NoCalls
    /\ layout = NoLayout
    /\ channel_name = <<>>
    /\ channel_type = "none"
    /\ NoEndpoints

\* ------------------------------------------------------- sync primitives
\* Mutex::Lock / Mutex::LockTimed outcome for thread t: the mutex is taken when
\* it is free.  LockTimed hands pthread_mutex_timedlock the duration as an
\* absolute time, which lies in the past, so a held mutex gives ETIMEDOUT at once.
\* Variant of MutexFree: a lock that never waits for the holder.
MutexFree_Always == TRUE

MutexFree == m_mutex = NoThread

\* Mutex::LockTimed on a held mutex: timespec { 0, duration } is handed to
\* pthread_mutex_timedlock, which gives EINVAL (SyncPrimitiveError) when tv_nsec
\* is out of range and ETIMEDOUT (Timeout) otherwise.
LockTimed(d) == IF d >= TvNsecLimit THEN "SyncPrimitiveError" ELSE "Timeout"

\* Variant of Signal that wakes no waiter.
Signal_Nobody(cv) == {NoThread}

\* ConditionVariable::Signal: pthread_cond_signal wakes one of the threads
\* blocked on the condition variable, or nobody when there is none.
Signal(cv) == IF cv = {} THEN {NoThread} ELSE cv

\* pc after thread t returned and Signal woke w (w has to take the mutex again
\* before its pthread_cond_wait returns).
Returned(t, w) ==
    [x \in Threads |-> IF x = t THEN "idle"
                       ELSE IF x = w THEN (IF pc[x] = "zc_blocked" THEN "zc_reacquire"
                                           ELSE "reacquire")
                       ELSE pc[x]]

\* --------------------------------------------------- ring buffer helpers
\* RingBufferBase::getBufferSlot: the slot of an index (PIKA_ASSERT index < m_queue_length).
\* Variant of getBufferSlot that maps every index to the first slot.
getBufferSlot_First(index) == 0

getBufferSlot(index) == index

\* Variant of NotFull that lets one record too many in.
NotFull_OffByOne == m_count <= m_queue_length

\* Predicate of the not-full wait in PushFront.
NotFull == m_count < m_queue_length

\* Variant of NotEmpty that accepts an empty queue (m_count is unsigned).
NotEmpty_Unsigned == m_count >= 0

\* Predicate of the not-empty wait in PopBack.
NotEmpty == m_count # 0

\* Variant of AdvanceIndex that does not move the index.
AdvanceIndex_Stuck(index) == index % m_queue_length

\* The index advance of PushFront and PopBack: (index + 1) % m_queue_length.
AdvanceIndex(index) == (index + 1) % m_queue_length

\* Thread t returns from its call with outcome r; its locals go out of scope.
\* A consumer's destination buffer (element) stays as the call left it.
ReturnLocals(t, r) ==
    /\ result' = [result EXCEPT ![t] = r]
    /\ timeout_duration' = [timeout_duration EXCEPT ![t] = INFINITE_TIMEOUT]
    /\ current' = [current EXCEPT ![t] = 0]
    /\ expired' = [expired EXCEPT ![t] = FALSE]

\* The thread's endpoint is dropped (~ProducerInternal / ~ConsumerInternal):
\* the thread issues no further call.
Drop(t) ==
    /\ Active(t)
    /\ pc[t] = "idle"
    /\ pc' = [pc EXCEPT ![t] = "done"]
    /\ ReturnLocals(t, "none")
    /\ element' = [element EXCEPT ![t] = NoRecord]
    /\ UNCHANGED <<engine_vars, sync_vars, history_vars, ncalls>>
    /\ UNCHANGED channel_vars

\* ------------------------------------------- RingBufferLockProtected
\* Variant of LockedMutexNew in which the timed lock takes the free mutex and
\* still reports the deadline (which lies in the past) as missed.
LockedMutexNew_KeepsMutex(t, d) ==
    /\ engine = "locked"
    /\ pc[t] = "idle"
    /\ ncalls < MaxCalls
    /\ ncalls' = ncalls + 1
    /\ any_finite' = (any_finite \/ d # INFINITE_TIMEOUT)
    /\ \/ /\ MutexFree
          /\ d = INFINITE_TIMEOUT
          /\ m_mutex' = t
          /\ pc' = [pc EXCEPT ![t] = "wait"]
          /\ timeout_duration' = [timeout_duration EXCEPT ![t] = d]
          /\ element' = [element EXCEPT ![t] = IF t \in Producers THEN NextRecord(t) ELSE @]
          /\ result' = [result EXCEPT ![t] = "none"]
          /\ UNCHANGED <<current, expired>>
       \/ /\ d # INFINITE_TIMEOUT
          /\ m_mutex' = IF MutexFree THEN t ELSE m_mutex
          /\ ReturnLocals(t, LockTimed(d))
          /\ UNCHANGED <<pc, element>>
    /\ UNCHANGED <<engine_vars, sent, received,
                   m_not_full_condition_variable, m_not_empty_condition_variable>>
    /\ UNCHANGED channel_vars

\* PushFront / PopBack is called with timeout d and runs
\* LockedMutex::New(&m_mutex) or LockedMutex::New(&m_mutex, timeout_duration):
\* the mutex is taken when free; a timed lock on a held mutex returns the error
\* of Mutex::LockTimed and the call returns it at once.
\* (An untimed lock on a held mutex blocks: the call takes effect later.)
LockedMutexNew(t, d) ==
    /\ engine = "locked"
    /\ pc[t] = "idle"
    /\ ncalls < MaxCalls
    /\ ncalls' = ncalls + 1
    /\ any_finite' = (any_finite \/ d # INFINITE_TIMEOUT)
    /\ \/ /\ MutexFree
          /\ m_mutex' = t
          /\ pc' = [pc EXCEPT ![t] = "wait"]
          /\ timeout_duration' = [timeout_duration EXCEPT ![t] = d]
          /\ element' = [element EXCEPT ![t] = IF t \in Producers THEN NextRecord(t) ELSE @]
          /\ result' = [result EXCEPT ![t] = "none"]
          /\ UNCHANGED <<current, expired>>
       \/ /\ ~MutexFree
          /\ d # INFINITE_TIMEOUT
          /\ ReturnLocals(t, LockTimed(d))
          /\ UNCHANGED <<m_mutex, pc, element>>
    /\ UNCHANGED <<engine_vars, sent, received,
                   m_not_full_condition_variable, m_not_empty_condition_variable>>
    /\ UNCHANGED channel_vars

\* PushFront holding the mutex.  ConditionVariable::Wait: while the predicate
\* is false the thread blocks in pthread_cond_wait, which releases the mutex.
\* Otherwise memcpy into the write slot, advance m_write_index, ++m_count, and
\* the LockedMutex leaves scope (unlock).
PushFrontLocked(p) ==
    /\ engine = "locked"
    /\ p \in Producers
    /\ pc[p] = "wait"
    /\ m_mutex = p
    /\ m_mutex' = NoThread
    /\ IF NotFull
       THEN /\ m_ring_buffer' = [m_ring_buffer EXCEPT ![getBufferSlot(m_write_index)] = element[p]]
            /\ m_write_index' = AdvanceIndex(m_write_index)
            /\ m_count' = m_count + 1
            /\ sent' = Append(sent, element[p])
            /\ pc' = [pc EXCEPT ![p] = "signal"]
            /\ UNCHANGED m_not_full_condition_variable
       ELSE /\ pc' = [pc EXCEPT ![p] = "blocked"]
            /\ m_not_full_condition_variable' = m_not_full_condition_variable \cup {p}
            /\ UNCHANGED <<m_ring_buffer, m_write_index, m_count, sent>>
    /\ UNCHANGED <<engine, m_queue_length, m_internal_queue_length, m_read_index, m_head, m_tail,
                   m_not_empty_condition_variable, timeout_duration, element, current, expired,
                   result, ncalls, received, any_finite>>
    /\ UNCHANGED channel_vars

\* PushFront: m_not_empty_condition_variable.Signal(); return {}.
PushFrontSignal(p) ==
    /\ engine = "locked"
    /\ p \in Producers
    /\ pc[p] = "signal"
    /\ \E w \in Signal(m_not_empty_condition_variable) :
        /\ m_not_empty_condition_variable' = m_not_empty_condition_variable \ {w}
        /\ pc' = Returned(p, w)
    /\ ReturnLocals(p, "ok")
    /\ element' = [element EXCEPT ![p] = NoRecord]
    /\ UNCHANGED <<engine_vars, history_vars, ncalls, m_mutex, m_not_full_condition_variable>>
    /\ UNCHANGED channel_vars

\* PopBack holding the mutex: wait for not-empty, else memcpy out of the read
\* slot, advance m_read_index, --m_count, unlock.
PopBackLocked(c) ==
    /\ engine = "locked"
    /\ c \in Consumers
    /\ pc[c] = "wait"
    /\ m_mutex = c
    /\ m_mutex' = NoThread
    /\ IF NotEmpty
       THEN /\ element' = [element EXCEPT ![c] = m_ring_buffer[getBufferSlot(m_read_index)]]
            /\ m_read_index' = AdvanceIndex(m_read_index)
            /\ m_count' = m_count - 1
            /\ received' = Append(received, <<m_ring_buffer[getBufferSlot(m_read_index)], c>>)
            /\ pc' = [pc EXCEPT ![c] = "signal"]
            /\ UNCHANGED m_not_empty_condition_variable
       ELSE /\ pc' = [pc EXCEPT ![c] = "blocked"]
            /\ m_not_empty_condition_variable' = m_not_empty_condition_variable \cup {c}
            /\ UNCHANGED <<element, m_read_index, m_count, received>>
    /\ UNCHANGED <<engine, m_queue_length, m_internal_queue_length, m_ring_buffer, m_write_index,
                   m_head, m_tail, m_not_full_condition_variable, timeout_duration, current,
                   expired, result, ncalls, sent, any_finite>>
    /\ UNCHANGED channel_vars

\* PopBack: m_not_full_condition_variable.Signal(); return {}.
PopBackSignal(c) ==
    /\ engine = "locked"
    /\ c \in Consumers
    /\ pc[c] = "signal"
    /\ \E w \in Signal(m_not_full_condition_variable) :
        /\ m_not_full_condition_variable' = m_not_full_condition_variable \ {w}
        /\ pc' = Returned(c, w)
    /\ ReturnLocals(c, "ok")
    /\ UNCHANGED <<engine_vars, history_vars, ncalls, element, m_mutex,
                   m_not_empty_condition_variable>>
    /\ UNCHANGED channel_vars

\* pthread_cond_wait returns: the woken thread takes the mutex again and the
\* Wait loop evaluates its predicate once more.
CondWaitReturn(t) ==
    /\ engine = "locked"
    /\ pc[t] = "reacquire"
    /\ MutexFree
    /\ m_mutex' = t
    /\ pc' = [pc EXCEPT ![t] = "wait"]
    /\ UNCHANGED <<engine_vars, history_vars, timeout_duration, element, current, expired,
                   result, ncalls, m_not_full_condition_variable, m_not_empty_condition_variable>>
    /\ UNCHANGED channel_vars

\* pthread_cond_wait may wake without a signal (spurious wake-up).
SpuriousWakeup(t) ==
    /\ engine = "locked"
    /\ pc[t] = "blocked"
    /\ pc' = [pc EXCEPT ![t] = "reacquire"]
    /\ m_not_full_condition_variable' = m_not_full_condition_variable \ {t}
    /\ m_not_empty_condition_variable' = m_not_empty_condition_variable \ {t}
    /\ UNCHANGED <<engine_vars, history_vars, timeout_duration, element, current, expired,
                   result, ncalls, m_mutex>>
    /\ UNCHANGED channel_vars

\* ------------------------------- RingBufferLockProtected, zero-copy
\* A producer calls GetFrontElementPtr, writes its record through the pointer
\* and calls ReleaseFrontElementPtr; a consumer calls GetBackElementPtr, reads
\* through the pointer and calls ReleaseBackElementPtr.  Release is called by
\* the thread that got the pointer, with any slot pointer; until its release
\* succeeds that thread issues no other call.

\* GetFrontElementPtr / GetBackElementPtr is called with timeout d:
\* m_mutex.Lock() or m_mutex.LockTimed(timeout_duration).
GetElementPtrLock(t, d) ==
    /\ engine = "locked"
    /\ pc[t] = "idle"
    /\ ncalls < MaxCalls
    /\ ncalls' = ncalls + 1
    /\ any_finite' = (any_finite \/ d # INFINITE_TIMEOUT)
    /\ \/ /\ MutexFree
          /\ m_mutex' = t
          /\ pc' = [pc EXCEPT ![t] = "zc_wait"]
          /\ timeout_duration' = [timeout_duration EXCEPT ![t] = d]
          /\ element' = [element EXCEPT ![t] = IF t \in Producers THEN NextRecord(t) ELSE @]
          /\ result' = [result EXCEPT ![t] = "none"]
          /\ UNCHANGED <<current, expired>>
       \/ /\ ~MutexFree
          /\ d # INFINITE_TIMEOUT
          /\ ReturnLocals(t, LockTimed(d))
          /\ UNCHANGED <<m_mutex, pc, element>>
    /\ UNCHANGED <<engine_vars, sent, received,
                   m_not_full_condition_variable, m_not_empty_condition_variable>>
    /\ UNCHANGED channel_vars

\* GetFrontElementPtr holding the mutex: wait for not-full (pthread_cond_wait
\* releases the mutex), else return getBufferSlot(m_write_index) with the mutex
\* still held.
GetFrontElementPtr(p) ==
    /\ engine = "locked"
    /\ p \in Producers
    /\ pc[p] = "zc_wait"
    /\ m_mutex = p
    /\ IF NotFull
       THEN /\ pc' = [pc EXCEPT ![p] = "holding"]
            /\ current' = [current EXCEPT ![p] = getBufferSlot(m_write_index)]
            /\ result' = [result EXCEPT ![p] = "ok"]
            /\ UNCHANGED <<m_mutex, m_not_full_condition_variable>>
       ELSE /\ pc' = [pc EXCEPT ![p] = "zc_blocked"]
            /\ m_not_full_condition_variable' = m_not_full_condition_variable \cup {p}
            /\ m_mutex' = NoThread
            /\ UNCHANGED <<current, result>>
    /\ UNCHANGED <<engine_vars, history_vars, m_not_empty_condition_variable, timeout_duration,
                   element, expired, ncalls>>
    /\ UNCHANGED channel_vars

\* GetBackElementPtr holding the mutex: wait for not-empty, else return
\* getBufferSlot(m_read_index) with the mutex still held.
GetBackElementPtr(c) ==
    /\ engine = "locked"
    /\ c \in Consumers
    /\ pc[c] = "zc_wait"
    /\ m_mutex = c
    /\ IF NotEmpty
       THEN /\ pc' = [pc EXCEPT ![c] = "holding"]
            /\ current' = [current EXCEPT ![c] = getBufferSlot(m_read_index)]
            /\ result' = [result EXCEPT ![c] = "ok"]
            /\ UNCHANGED <<m_mutex, m_not_empty_condition_variable>>
       ELSE /\ pc' = [pc EXCEPT ![c] = "zc_blocked"]
            /\ m_not_empty_condition_variable' = m_not_empty_condition_variable \cup {c}
            /\ m_mutex' = NoThread
            /\ UNCHANGED <<current, result>>
    /\ UNCHANGED <<engine_vars, history_vars, m_not_full_condition_variable, timeout_duration,
                   element, expired, ncalls>>
    /\ UNCHANGED channel_vars

\* pthread_cond_wait inside Get*ElementPtr returns: the mutex is taken again.
GetElementPtrCondWaitReturn(t) ==
    /\ engine = "locked"
    /\ pc[t] = "zc_reacquire"
    /\ MutexFree
    /\ m_mutex' = t
    /\ pc' = [pc EXCEPT ![t] = "zc_wait"]
    /\ UNCHANGED <<engine_vars, history_vars, timeout_duration, element, current, expired,
                   result, ncalls, m_not_full_condition_variable, m_not_empty_condition_variable>>
    /\ UNCHANGED channel_vars

\* Spurious wake-up of a thread blocked inside Get*ElementPtr.
GetElementPtrSpuriousWakeup(t) ==
    /\ engine = "locked"
    /\ pc[t] = "zc_blocked"
    /\ pc' = [pc EXCEPT ![t] = "zc_reacquire"]
    /\ m_not_full_condition_variable' = m_not_full_condition_variable \ {t}
    /\ m_not_empty_condition_variable' = m_not_empty_condition_variable \ {t}
    /\ UNCHANGED <<engine_vars, history_vars, timeout_duration, element, current, expired,
                   result, ncalls, m_mutex>>
    /\ UNCHANGED channel_vars

\* The caller uses the pointer it got: a producer writes its record into the
\* slot, a consumer copies the record out of it.
UseSlot(t) ==
    /\ engine = "locked"
    /\ pc[t] = "holding"
    /\ pc' = [pc EXCEPT ![t] = "used"]
    /\ IF t \in Producers
       THEN /\ m_ring_buffer' = [m_ring_buffer EXCEPT ![current[t]] = element[t]]
            /\ UNCHANGED element
       ELSE /\ element' = [element EXCEPT ![t] = m_ring_buffer[current[t]]]
            /\ UNCHANGED m_ring_buffer
    /\ UNCHANGED <<engine, m_queue_length, m_internal_queue_length, m_write_index, m_read_index,
                   m_count, m_head, m_tail, sync_vars, history_vars, timeout_duration, current,
                   expired, result, ncalls>>
    /\ UNCHANGED channel_vars

\* The pointers a caller may hand to a release: the slots of the buffer.
SlotPointers == {getBufferSlot(i) : i \in 0..m_queue_length - 1}

\* Variant of ReleaseFrontElementPtr that advances the index whatever pointer
\* it is given.
ReleaseFrontElementPtr_Unchecked(p, ptr) ==
    /\ engine = "locked"
    /\ p \in Producers
    /\ pc[p] = "used"
    /\ ptr \in SlotPointers
    /\ m_write_index' = AdvanceIndex(m_write_index)
    /\ m_count' = m_count + 1
    /\ m_mutex' = NoThread
    /\ sent' = Append(sent, m_ring_buffer[getBufferSlot(m_write_index)])
    /\ pc' = [pc EXCEPT ![p] = "zc_signal"]
    /\ result' = [result EXCEPT ![p] = IF ptr # getBufferSlot(m_write_index)
                                       THEN "RingBufferError" ELSE "none"]
    /\ UNCHANGED <<engine, m_queue_length, m_internal_queue_length, m_ring_buffer, m_read_index,
                   m_head, m_tail, m_not_full_condition_variable,
                   m_not_empty_condition_variable, timeout_duration, element, current, expired,
                   ncalls, received, any_finite>>
    /\ UNCHANGED channel_vars

\* ReleaseFrontElementPtr(element): a pointer other than
\* getBufferSlot(m_write_index) is answered with RingBufferError at once;
\* otherwise advance m_write_index, ++m_count, m_mutex.Unlock().
ReleaseFrontElementPtr(p, ptr) ==
    /\ engine = "locked"
    /\ p \in Producers
    /\ pc[p] = "used"
    /\ ptr \in SlotPointers
    /\ IF ptr # getBufferSlot(m_write_index)
       THEN /\ result' = [result EXCEPT ![p] = "RingBufferError"]
            /\ UNCHANGED <<m_write_index, m_count, m_mutex, sent, pc>>
       ELSE /\ m_write_index' = AdvanceIndex(m_write_index)
            /\ m_count' = m_count + 1
            /\ m_mutex' = NoThread
            /\ sent' = Append(sent, m_ring_buffer[getBufferSlot(m_write_index)])
            /\ pc' = [pc EXCEPT ![p] = "zc_signal"]
            /\ result' = [result EXCEPT ![p] = "none"]
    /\ UNCHANGED <<engine, m_queue_length, m_internal_queue_length, m_ring_buffer, m_read_index,
                   m_head, m_tail, m_not_full_condition_variable,
                   m_not_empty_condition_variable, timeout_duration, element, current, expired,
                   ncalls, received, any_finite>>
    /\ UNCHANGED channel_vars

\* Variant of ReleaseFrontSignal that returns without signalling.
ReleaseFrontSignal_Silent(p) ==
    /\ engine = "locked"
    /\ p \in Producers
    /\ pc[p] = "zc_signal"
    /\ pc' = [pc EXCEPT ![p] = "idle"]
    /\ ReturnLocals(p, "ok")
    /\ element' = [element EXCEPT ![p] = NoRecord]
    /\ UNCHANGED <<engine_vars, history_vars, ncalls, sync_vars>>
    /\ UNCHANGED channel_vars

\* ReleaseFrontElementPtr: m_not_empty_condition_variable.Signal(); return {}.
ReleaseFrontSignal(p) ==
    /\ engine = "locked"
    /\ p \in Producers
    /\ pc[p] = "zc_signal"
    /\ \E w \in Signal(m_not_empty_condition_variable) :
        /\ m_not_empty_condition_variable' = m_not_empty_condition_variable \ {w}
        /\ pc' = Returned(p, w)
    /\ ReturnLocals(p, "ok")
    /\ element' = [element EXCEPT ![p] = NoRecord]
    /\ UNCHANGED <<engine_vars, history_vars, ncalls, m_mutex, m_not_full_condition_variable>>
    /\ UNCHANGED channel_vars

\* Variant of ReleaseBackElementPtr that unlocks the mutex before it reports
\* the pointer mismatch.
ReleaseBackElementPtr_UnlocksOnError(c, ptr) ==
    /\ engine = "locked"
    /\ c \in Consumers
    /\ pc[c] = "used"
    /\ ptr \in SlotPointers
    /\ m_mutex' = NoThread
    /\ IF ptr # getBufferSlot(m_read_index)
       THEN /\ result' = [result EXCEPT ![c] = "RingBufferError"]
            /\ UNCHANGED <<m_read_index, m_count, received, pc>>
       ELSE /\ m_read_index' = AdvanceIndex(m_read_index)
            /\ m_count' = m_count - 1
            /\ received' = Append(received, <<element[c], c>>)
            /\ pc' = [pc EXCEPT ![c] = "zc_signal"]
            /\ result' = [result EXCEPT ![c] = "none"]
    /\ UNCHANGED <<engine, m_queue_length, m_internal_queue_length, m_ring_buffer, m_write_index,
                   m_head, m_tail, m_not_full_condition_variable,
                   m_not_empty_condition_variable, timeout_duration, element, current, expired,
                   ncalls, sent, any_finite>>
    /\ UNCHANGED channel_vars

\* ReleaseBackElementPtr(element): a pointer other than
\* getBufferSlot(m_read_index) is answered with RingBufferError at once;
\* otherwise advance m_read_index, --m_count, m_mutex.Unlock().
ReleaseBackElementPtr(c, ptr) ==
    /\ engine = "locked"
    /\ c \in Consumers
    /\ pc[c] = "used"
    /\ ptr \in SlotPointers
    /\ IF ptr # getBufferSlot(m_read_index)
       THEN /\ result' = [result EXCEPT ![c] = "RingBufferError"]
            /\ UNCHANGED <<m_read_index, m_count, m_mutex, received, pc>>
       ELSE /\ m_read_index' = AdvanceIndex(m_read_index)
            /\ m_count' = m_count - 1
            /\ m_mutex' = NoThread
            /\ received' = Append(received, <<element[c], c>>)
            /\ pc' = [pc EXCEPT ![c] = "zc_signal"]
            /\ result' = [result EXCEPT ![c] = "none"]
    /\ UNCHANGED <<engine, m_queue_length, m_internal_queue_length, m_ring_buffer, m_write_index,
                   m_head, m_tail, m_not_full_condition_variable,
                   m_not_empty_condition_variable, timeout_duration, element, current, expired,
                   ncalls, sent, any_finite>>
    /\ UNCHANGED channel_vars

\* ReleaseBackElementPtr: m_not_full_condition_variable.Signal(); return {}.
ReleaseBackSignal(c) ==
    /\ engine = "locked"
    /\ c \in Consumers
    /\ pc[c] = "zc_signal"
    /\ \E w \in Signal(m_not_full_condition_variable) :
        /\ m_not_full_condition_variable' = m_not_full_condition_variable \ {w}
        /\ pc' = Returned(c, w)
    /\ ReturnLocals(c, "ok")
    /\ UNCHANGED <<engine_vars, history_vars, ncalls, element, m_mutex,
                   m_not_empty_condition_variable>>
    /\ UNCHANGED channel_vars

\* ------------------------------------------------ RingBufferLockFree
\* RingBufferLockFree::getBufferSlot_ (PIKA_ASSERT index < m_internal_queue_length).
getBufferSlot_(index) == index

\* RingBufferLockFree::incrementByOne.
incrementByOne(index) == (index + 1) % m_internal_queue_length

\* Variant of QueueEmpty that looks one slot ahead.
QueueEmpty_Ahead(current_head) == incrementByOne(current_head) = m_tail

\* Loop condition of the busy-wait in PopBack: current_head == m_tail.load(acquire).
QueueEmpty(current_head) == current_head = m_tail

\* Variant of QueueFull that never makes the producer wait.
QueueFull_Never(next_tail) == FALSE

\* Loop condition of the busy-wait in PushFront: next_tail == m_head.load(acquire).
QueueFull(next_tail) == next_tail = m_head

\* Possible values of `timer.GetElapsedDuration() < timeout_duration` when the
\* busy-wait evaluates it: never true for a zero timeout, and false at the
\* latest once the duration has passed.
TimerRunning(d) == IF d = 0 THEN {FALSE} ELSE {TRUE, FALSE}

\* PushFront / PopBack is called with timeout d: the relaxed load of the
\* caller's own index (current_tail / current_head).
LockFreeCall(t, d) ==
    /\ engine = "lockfree"
    /\ Active(t)
    /\ pc[t] = "idle"
    /\ ncalls < MaxLockFreeCalls
    /\ ncalls' = ncalls + 1
    /\ any_finite' = (any_finite \/ d # INFINITE_TIMEOUT)
    /\ pc' = [pc EXCEPT ![t] = "spin"]
    /\ timeout_duration' = [timeout_duration EXCEPT ![t] = d]
    /\ current' = [current EXCEPT ![t] = IF t \in Producers THEN m_tail ELSE m_head]
    /\ element' = [element EXCEPT ![t] = IF t \in Producers THEN NextRecord(t) ELSE @]
    /\ result' = [result EXCEPT ![t] = "none"]
    /\ UNCHANGED <<engine_vars, sync_vars, sent, received, expired>>
    /\ UNCHANGED channel_vars

\* PushFront busy-wait: while (next_tail == m_head.load(acquire) [&& timer running]).
\* The step is the evaluation of the condition that ends the loop.
PushFrontSpin(p) ==
    /\ engine = "lockfree"
    /\ p \in Producers
    /\ pc[p] = "spin"
    /\ \/ /\ ~QueueFull(incrementByOne(current[p]))
          /\ UNCHANGED expired
       \/ /\ QueueFull(incrementByOne(current[p]))
          /\ timeout_duration[p] # INFINITE_TIMEOUT
          /\ FALSE \in TimerRunning(timeout_duration[p])
          /\ expired' = [expired EXCEPT ![p] = TRUE]
    /\ pc' = [pc EXCEPT ![p] = "copy"]
    /\ UNCHANGED <<engine_vars, sync_vars, history_vars, timeout_duration, element, current,
                   result, ncalls>>
    /\ UNCHANGED channel_vars

\* PushFront: std::memcpy(getBufferSlot_(current_tail), element, ...).
PushFrontCopy(p) ==
    /\ engine = "lockfree"
    /\ p \in Producers
    /\ pc[p] = "copy"
    /\ m_ring_buffer' = [m_ring_buffer EXCEPT ![getBufferSlot_(current[p])] = element[p]]
    /\ pc' = [pc EXCEPT ![p] = "store"]
    /\ UNCHANGED <<engine, m_queue_length, m_internal_queue_length, m_write_index, m_read_index,
                   m_count, m_head, m_tail, sync_vars, history_vars, timeout_duration, element,
                   current, expired, result, ncalls>>
    /\ UNCHANGED channel_vars

\* PushFront: m_tail.store(next_tail, release); return {}.
PushFrontStore(p) ==
    /\ engine = "lockfree"
    /\ p \in Producers
    /\ pc[p] = "store"
    /\ m_tail' = incrementByOne(current[p])
    /\ sent' = Append(sent, element[p])
    /\ pc' = [pc EXCEPT ![p] = "idle"]
    /\ ReturnLocals(p, "ok")
    /\ element' = [element EXCEPT ![p] = NoRecord]
    /\ UNCHANGED <<engine, m_queue_length, m_internal_queue_length, m_ring_buffer, m_write_index,
                   m_read_index, m_count, m_head, sync_vars, received, any_finite, ncalls>>
    /\ UNCHANGED channel_vars

\* PopBack busy-wait: while (current_head == m_tail.load(acquire) [&& timer running]).
PopBackSpin(c) ==
    /\ engine = "lockfree"
    /\ c \in Consumers
    /\ pc[c] = "spin"
    /\ \/ /\ ~QueueEmpty(current[c])
          /\ UNCHANGED expired
       \/ /\ QueueEmpty(current[c])
          /\ timeout_duration[c] # INFINITE_TIMEOUT
          /\ FALSE \in TimerRunning(timeout_duration[c])
          /\ expired' = [expired EXCEPT ![c] = TRUE]
    /\ pc' = [pc EXCEPT ![c] = "copy"]
    /\ UNCHANGED <<engine_vars, sync_vars, history_vars, timeout_duration, element, current,
                   result, ncalls>>
    /\ UNCHANGED channel_vars

\* PopBack: std::memcpy(element, getBufferSlot_(current_head), ...).
PopBackCopy(c) ==
    /\ engine = "lockfree"
    /\ c \in Consumers
    /\ pc[c] = "copy"
    /\ element' = [element EXCEPT ![c] = m_ring_buffer[getBufferSlot_(current[c])]]
    /\ pc' = [pc EXCEPT ![c] = "store"]
    /\ UNCHANGED <<engine_vars, sync_vars, history_vars, timeout_duration, current, expired,
                   result, ncalls>>
    /\ UNCHANGED channel_vars

\* PopBack: m_head.store(incrementByOne(current_head), release); return {}.
PopBackStore(c) ==
    /\ engine = "lockfree"
    /\ c \in Consumers
    /\ pc[c] = "store"
    /\ m_head' = incrementByOne(current[c])
    /\ received' = Append(received, <<element[c], c>>)
    /\ pc' = [pc EXCEPT ![c] = "idle"]
    /\ ReturnLocals(c, "ok")
    /\ UNCHANGED <<engine, m_queue_length, m_internal_queue_length, m_ring_buffer, m_write_index,
                   m_read_index, m_count, m_tail, sync_vars, sent, any_finite, ncalls, element>>
    /\ UNCHANGED channel_vars

\* ----------------------------------------------- endpoint operations
\* InterProcessSharedBuffer::Initialize, first part: a name that does not begin
\* with '/' is an error; shm_open(O_RDWR | O_CREAT) opens the object of the name
\* or creates an empty one, and fstat reads its size.
ShmOpen(e, p) ==
    /\ channel_type = "InterProcess"
    /\ ep[e] = "idle"
    /\ params' = [params EXCEPT ![e] = p]
    /\ IF ~BeginsWithSlash(channel_name)
       THEN /\ ep' = [ep EXCEPT ![e] = "failed"]
            /\ status' = [status EXCEPT ![e] = "SharedBufferError"]
            /\ UNCHANGED <<nobjects, named_object, m_storage, st_size>>
       ELSE /\ ep' = [ep EXCEPT ![e] = "opened"]
            /\ UNCHANGED status
            /\ IF named_object = NoObject
               THEN /\ nobjects' = nobjects + 1
                    /\ named_object' = nobjects + 1
                    /\ m_storage' = [m_storage EXCEPT ![e] = nobjects + 1]
                    /\ st_size' = [st_size EXCEPT ![e] = 0]
               ELSE /\ m_storage' = [m_storage EXCEPT ![e] = named_object]
                    /\ st_size' = [st_size EXCEPT ![e] = object_size[named_object]]
                    /\ UNCHANGED <<nobjects, named_object>>
    /\ UNCHANGED <<layout, channel_name, channel_type, object_size, header, sem, connected,
                   is_connected, initialized, ring_vars>>

\* InterProcessSharedBuffer::Initialize, second part: a non-zero size other than
\* the requested one is an error (m_fd stays -1, nothing is mapped); an empty
\* object is ftruncate'd to the requested size; mmap.
ShmMap(e) ==
    /\ channel_type = "InterProcess"
    /\ ep[e] = "opened"
    /\ IF st_size[e] # 0 /\ st_size[e] # GetBufferSize(params[e])
       THEN /\ ep' = [ep EXCEPT ![e] = "failed"]
            /\ status' = [status EXCEPT ![e] = "SharedBufferError"]
            /\ m_storage' = [m_storage EXCEPT ![e] = NoObject]
            /\ UNCHANGED object_size
       ELSE /\ ep' = [ep EXCEPT ![e] = "mapped"]
            /\ object_size' = IF st_size[e] = 0
                              THEN [object_size EXCEPT ![m_storage[e]] = GetBufferSize(params[e])]
                              ELSE object_size
            /\ UNCHANGED <<status, m_storage>>
    /\ st_size' = [st_size EXCEPT ![e] = 0]
    /\ UNCHANGED <<layout, channel_name, channel_type, named_object, nobjects, header, sem, params, connected,
                   is_connected, initialized, ring_vars>>

\* InterThreadSharedBuffer::Initialize (under the map's mutex): the vector of an
\* existing name is taken as it is, whatever its size; otherwise a zero-filled
\* vector of the requested size is inserted.
InterThreadInitialize(e, p) ==
    /\ channel_type = "InterThread"
    /\ ep[e] = "idle"
    /\ params' = [params EXCEPT ![e] = p]
    /\ IF named_object = NoObject
       THEN /\ nobjects' = nobjects + 1
            /\ named_object' = nobjects + 1
            /\ m_storage' = [m_storage EXCEPT ![e] = nobjects + 1]
            /\ object_size' = [object_size EXCEPT ![nobjects + 1] = GetBufferSize(p)]
       ELSE /\ m_storage' = [m_storage EXCEPT ![e] = named_object]
            /\ UNCHANGED <<nobjects, named_object, object_size>>
    /\ ep' = [ep EXCEPT ![e] = "mapped"]
    /\ UNCHANGED <<layout, channel_name, channel_type, header, sem, st_size, status, connected, is_connected,
                   initialized, ring_vars>>

\* Variant of SemWait that takes the token without waiting for its holder.
SemWait_NoWait(e) ==
    /\ channel_type # "none"
    /\ ep[e] = "mapped"
    /\ BeginsWithSlash(SemaphoreName)
    /\ sem' = sem - 1
    /\ ep' = [ep EXCEPT ![e] = "token"]
    /\ UNCHANGED <<layout, channel_name, channel_type, named_object, nobjects, object_size, header,
                   params, m_storage, st_size, status, connected, is_connected, initialized,
                   ring_vars>>

\* PrepareHeader: Semaphore::New(semaphore_name, 1) refuses a name that does not
\* begin with '/' (PrepareHeader returns its error), else opens the named
\* semaphore, and sem.Wait() takes the token (sem_wait returns when it has
\* decremented the semaphore).
SemWait(e) ==
    /\ channel_type # "none"
    /\ ep[e] = "mapped"
    /\ IF ~BeginsWithSlash(SemaphoreName)
       THEN /\ ep' = [ep EXCEPT ![e] = "failing"]
            /\ status' = [status EXCEPT ![e] = "SharedBufferError"]
            /\ UNCHANGED sem
       ELSE /\ sem > 0
            /\ sem' = sem - 1
            /\ ep' = [ep EXCEPT ![e] = "token"]
            /\ UNCHANGED status
    /\ UNCHANGED <<layout, channel_name, channel_type, named_object, nobjects, object_size, header,
                   params, m_storage, st_size, connected, is_connected, initialized, ring_vars>>

\* Variant of Post that leaves the semaphore as it is.
Post_Dropped(value) == value

\* Semaphore::Post (sem_post) on a semaphore of the given value.
Post(value) == value + 1

\* PrepareHeader holding the token: an unregistered header is constructed in
\* place and the engine initialized, then registered is set; a registered header
\* is compared with the caller's parameters.  The Defer posts the semaphore on
\* every way out.
PrepareHeader(e) ==
    /\ channel_type # "none"
    /\ ep[e] = "token"
    /\ sem' = Post(sem)
    /\ IF ~Registered(Header(e))
       THEN \E ok \in RingBufferInitialize(params[e]) :
              /\ header' = [header EXCEPT ![m_storage[e]] = PreparedHeader(params[e], ok)]
              /\ initialized' = [initialized EXCEPT ![m_storage[e]] = IF ok THEN @ + 1 ELSE @]
              /\ ep' = [ep EXCEPT ![e] = IF ok THEN "prepared" ELSE "failing"]
              /\ status' = [status EXCEPT ![e] = IF ok THEN @ ELSE "RingBufferError"]
       ELSE /\ ep' = [ep EXCEPT ![e] = IF Validate(Header(e), params[e])
                                       THEN "prepared" ELSE "failing"]
            /\ status' = [status EXCEPT ![e] = IF Validate(Header(e), params[e])
                                               THEN @ ELSE "RingBufferError"]
            /\ UNCHANGED <<header, initialized>>
    /\ UNCHANGED <<layout, channel_name, channel_type, named_object, nobjects, object_size, params, m_storage,
                   st_size, connected, is_connected, ring_vars>>

\* ProducerInternal::Create / ConsumerInternal::Create after CreateBackingStorage
\* succeeded: fetch_add(1) on the counter of the endpoint's role, and the
\* endpoint is returned.
CreateReturn(e) ==
    /\ channel_type # "none"
    /\ ep[e] = "prepared"
    /\ header' = [header EXCEPT ![m_storage[e]] = FetchAdd(e, @)]
    /\ ep' = [ep EXCEPT ![e] = "live"]
    /\ status' = [status EXCEPT ![e] = "ok"]
    /\ UNCHANGED <<layout, channel_name, channel_type, named_object, nobjects, object_size, sem, params, m_storage,
                   st_size, connected, is_connected, initialized, ring_vars>>

\* Connect is called: the endpoint enters the loop on the peer counter.
ConnectCall(e) ==
    /\ channel_type # "none"
    /\ ep[e] = "live"
    /\ ~connected[e]
    /\ ep' = [ep EXCEPT ![e] = "connecting"]
    /\ UNCHANGED <<layout, channel_name, channel_type, named_object, nobjects, object_size, header, sem, params,
                   m_storage, st_size, status, connected, is_connected, initialized, ring_vars>>

\* Connect: while (peer_count.load() == 0) yield; return {}.  The step is the
\* load that ends the loop.
Connect(e) ==
    /\ channel_type # "none"
    /\ ep[e] = "connecting"
    /\ PeerCount(e, Header(e)) # 0
    /\ ep' = [ep EXCEPT ![e] = "live"]
    /\ connected' = [connected EXCEPT ![e] = TRUE]
    /\ UNCHANGED <<layout, channel_name, channel_type, named_object, nobjects, object_size, header, sem, params,
                   m_storage, st_size, status, is_connected, initialized, ring_vars>>

\* IsConnected: reports whether the (unsigned) peer counter is above zero.  is_connected
\* keeps the caller and the value of the call that returned last.
IsConnected(e) ==
    /\ channel_type # "none"
    /\ ep[e] = "live"
    /\ is_connected' = <<e, IF PeerCount(e, Header(e)) # 0 THEN "true" ELSE "false">>
    /\ UNCHANGED <<layout, channel_name, channel_type, named_object, nobjects, object_size, header, sem, params,
                   m_storage, st_size, status, connected, ep, initialized, ring_vars>>

\* ~ProducerInternal / ~ConsumerInternal body: fetch_sub(1) on the counter of
\* the endpoint's role.
Destructor(e) ==
    /\ channel_type # "none"
    /\ ep[e] = "live"
    /\ header' = [header EXCEPT ![m_storage[e]] = FetchSub(e, @)]
    /\ ep' = [ep EXCEPT ![e] = "dropping"]
    /\ UNCHANGED <<layout, channel_name, channel_type, named_object, nobjects, object_size, sem, params, m_storage,
                   st_size, status, connected, is_connected, initialized, ring_vars>>

\* Variant of DestroyStorage in which the inter-thread buffer of the name is
\* erased from the static map as well.
DestroyStorage_ErasesEntry(e) ==
    /\ channel_type # "none"
    /\ ep[e] \in {"failing", "dropping"}
    /\ ep' = [ep EXCEPT ![e] = IF ep[e] = "failing" THEN "failed" ELSE "dropped"]
    /\ named_object' = NoObject
    /\ m_storage' = [m_storage EXCEPT ![e] = NoObject]
    /\ UNCHANGED <<layout, channel_name, channel_type, nobjects, object_size, header, sem,
                   params, st_size, status, connected, is_connected, initialized, ring_vars>>

\* The backing storage of e leaves scope (the local of a failed
\* CreateBackingStorage, or m_storage of a destroyed endpoint).
\* ~InterProcessSharedBuffer: munmap, and shm_unlink of the name since m_fd is
\* set.  ~InterThreadSharedBuffer leaves the static map alone.
DestroyStorage(e) ==
    /\ channel_type # "none"
    /\ ep[e] \in {"failing", "dropping"}
    /\ ep' = [ep EXCEPT ![e] = IF ep[e] = "failing" THEN "failed" ELSE "dropped"]
    /\ named_object' = IF channel_type = "InterProcess" THEN NoObject ELSE named_object
    /\ m_storage' = [m_storage EXCEPT ![e] = NoObject]
    /\ UNCHANGED <<layout, channel_name, channel_type, nobjects, object_size, header, sem, params, st_size, status,
                   connected, is_connected, initialized, ring_vars>>

\* The zero-copy operations of RingBufferBase.
ZeroCopyOperations ==
    {"GetFrontElementPtr", "ReleaseFrontElementPtr", "GetBackElementPtr", "ReleaseBackElementPtr"}

\* Variant of ZeroCopyLockFree in which the release of a front slot is
\* carried out (m_tail advanced) and reported as a success.
ZeroCopyLockFree_Supported(t, op) ==
    /\ engine = "lockfree"
    /\ Active(t)
    /\ pc[t] = "idle"
    /\ op \in ZeroCopyOperations
    /\ ReturnLocals(t, IF op = "ReleaseFrontElementPtr" THEN "ok" ELSE "RingBufferError")
    /\ m_tail' = IF op = "ReleaseFrontElementPtr" THEN incrementByOne(m_tail) ELSE m_tail
    /\ UNCHANGED <<engine, m_queue_length, m_internal_queue_length, m_ring_buffer, m_write_index,
                   m_read_index, m_count, m_head, sync_vars, history_vars, pc, element, ncalls>>
    /\ UNCHANGED channel_vars

\* RingBufferLockFree::GetFrontElementPtr / ReleaseFrontElementPtr /
\* GetBackElementPtr / ReleaseBackElementPtr: each ignores its argument and
\* returns RingBufferError ("Zero-copy API not supported").
ZeroCopyLockFree(t, op) ==
    /\ engine = "lockfree"
    /\ Active(t)
    /\ pc[t] = "idle"
    /\ op \in ZeroCopyOperations
    /\ ReturnLocals(t, "RingBufferError")
    /\ UNCHANGED <<engine_vars, sync_vars, history_vars, pc, element, ncalls>>
    /\ UNCHANGED channel_vars

Next ==
    \/ \E t \in Threads : Drop(t)
    \/ \E t \in Threads, d \in Timeouts : LockedMutexNew(t, d)
    \/ \E p \in Producers : PushFrontLocked(p)
    \/ \E p \in Producers : PushFrontSignal(p)
    \/ \E c \in Consumers : PopBackLocked(c)
    \/ \E c \in Consumers : PopBackSignal(c)
    \/ \E t \in Threads : CondWaitReturn(t)
    \/ \E t \in Threads : SpuriousWakeup(t)
    \/ \E t \in Threads, d \in Timeouts : LockFreeCall(t, d)
    \/ \E p \in Producers : PushFrontSpin(p)
    \/ \E p \in Producers : PushFrontCopy(p)
    \/ \E p \in Producers : PushFrontStore(p)
    \/ \E c \in Consumers : PopBackSpin(c)
    \/ \E c \in Consumers : PopBackCopy(c)
    \/ \E c \in Consumers : PopBackStore(c)
    \/ \E t \in Threads, op \in ZeroCopyOperations : ZeroCopyLockFree(t, op)

Spec == Init /\ [][Next]_vars

\* Steps of thread t inside a call it has issued (not the call itself, and
\* not a spurious wake-up): the scheduler runs every thread that can run.
Step(t) ==
    \/ PushFrontLocked(t) \/ PushFrontSignal(t)
    \/ PopBackLocked(t) \/ PopBackSignal(t)
    \/ CondWaitReturn(t)
    \/ PushFrontSpin(t) \/ PushFrontCopy(t) \/ PushFrontStore(t)
    \/ PopBackSpin(t) \/ PopBackCopy(t) \/ PopBackStore(t)

FairSpec == Spec /\ \A t \in Threads : WF_vars(Step(t))

\* Balanced use with INFINITE_TIMEOUT only: the producers issue CallsEach
\* PushFronts in total and the consumers as many PopBacks (locked engine: any
\* split among two producers and two consumers; lock-free engine: p1 and c1).
CallsEach == IF engine = "locked" THEN MaxCalls \div 2 ELSE MaxLockFreeCalls \div 2

\* Thread t is inside a call that has not taken effect yet.
InCall(t) == pc[t] \in {"wait", "blocked", "reacquire", "spin", "copy", "store"}

\* The calls issued so far by the threads of a role, given the log of those
\* that took effect.
Issued(log, role) == Len(log) + Cardinality({t \in role : InCall(t)})

\* Thread t issues its next PushFront / PopBack with INFINITE_TIMEOUT.
BalancedCall(t) ==
    /\ IF t \in Producers
       THEN Issued(sent, Producers) < CallsEach
       ELSE Issued(received, Consumers) < CallsEach
    /\ \/ LockedMutexNew(t, INFINITE_TIMEOUT)
       \/ LockFreeCall(t, INFINITE_TIMEOUT)

BalancedNext ==
    \/ \E t \in Threads : BalancedCall(t)
    \/ \E p \in Producers : PushFrontLocked(p)
    \/ \E p \in Producers : PushFrontSignal(p)
    \/ \E c \in Consumers : PopBackLocked(c)
    \/ \E c \in Consumers : PopBackSignal(c)
    \/ \E t \in Threads : CondWaitReturn(t)
    \/ \E t \in Threads : SpuriousWakeup(t)
    \/ \E p \in Producers : PushFrontSpin(p)
    \/ \E p \in Producers : PushFrontCopy(p)
    \/ \E p \in Producers : PushFrontStore(p)
    \/ \E c \in Consumers : PopBackSpin(c)
    \/ \E c \in Consumers : PopBackCopy(c)
    \/ \E c \in Consumers : PopBackStore(c)

BalancedSpec == Init /\ [][BalancedNext]_vars

\* Fair scheduling: every thread that can take a step inside its call takes it,
\* and a thread that wants the mutex (to start a call, or to come back from
\* pthread_cond_wait) gets it if it is free again and again.
BalancedFairSpec ==
    /\ BalancedSpec
    /\ \A t \in Threads :
          /\ WF_vars(Step(t))
          /\ SF_vars(BalancedCall(t))
          /\ SF_vars(CondWaitReturn(t))

\* The locked engine used through both interfaces: PushFront / PopBack and
\* the zero-copy operations, by one producer and two consumers.
ZeroCopyThreads == {"p1", "c1", "c2"}

ZeroCopyInit == Init /\ engine = "locked"

ZeroCopyNext ==
    \/ \E t \in ZeroCopyThreads : Drop(t)
    \/ \E t \in ZeroCopyThreads, d \in Timeouts : LockedMutexNew(t, d)
    \/ \E p \in Producers : PushFrontLocked(p)
    \/ \E p \in Producers : PushFrontSignal(p)
    \/ \E c \in Consumers : PopBackLocked(c)
    \/ \E c \in Consumers : PopBackSignal(c)
    \/ \E t \in Threads : CondWaitReturn(t)
    \/ \E t \in Threads : SpuriousWakeup(t)
    \/ \E t \in ZeroCopyThreads, d \in Timeouts : GetElementPtrLock(t, d)
    \/ \E p \in Producers : GetFrontElementPtr(p)
    \/ \E c \in Consumers : GetBackElementPtr(c)
    \/ \E t \in Threads : GetElementPtrCondWaitReturn(t)
    \/ \E t \in Threads : GetElementPtrSpuriousWakeup(t)
    \/ \E t \in Threads : UseSlot(t)
    \/ \E p \in Producers, ptr \in SlotPointers : ReleaseFrontElementPtr(p, ptr)
    \/ \E p \in Producers : ReleaseFrontSignal(p)
    \/ \E c \in Consumers, ptr \in SlotPointers : ReleaseBackElementPtr(c, ptr)
    \/ \E c \in Consumers : ReleaseBackSignal(c)

ZeroCopySpec == ZeroCopyInit /\ [][ZeroCopyNext]_vars

\* CreateBackingStorage evaluates GetBufferSize<RingBuffer>(queue_size,
\* element_size, element_alignment): GetRingBufferSlotsOffset asserts on the
\* alignment and traps, or the offset and the size are computed.
EvaluateGetBufferSize ==
    /\ layout.state = "called"
    /\ IF ~AlignmentAssertion(layout.element_alignment)
       THEN layout' = [layout EXCEPT !.state = "trapped"]
       ELSE layout' = [layout EXCEPT
                          !.state = "returned",
                          !.offset = GetRingBufferSlotsOffset(
                                         layout.single_producer_single_consumer_mode,
                                         layout.element_alignment),
                          !.size = GetBufferSize(layout)]
    /\ UNCHANGED <<channel_name, channel_type, named_object, nobjects, object_size, header, sem,
                   ep, params, m_storage, st_size, status, connected, is_connected, initialized,
                   ring_vars>>

\* The layout computation alone, for every argument in LayoutArguments.
LayoutInit ==
    /\ engine = "none"
    /\ m_queue_length = 1
    /\ NoCalls
    /\ layout \in LayoutArguments
    /\ channel_name = <<>>
    /\ channel_type = "none"
    /\ NoEndpoints

LayoutNext == EvaluateGetBufferSize

LayoutSpec == LayoutInit /\ [][LayoutNext]_vars

\* The rendezvous: behaviours that follow the endpoints of one channel from
\* before its first Create; no call is issued on the engine.
RendezvousInit ==
    /\ engine = "none"
    /\ m_queue_length = 1
    /\ NoCalls
    /\ layout = NoLayout
    /\ channel_name \in ChannelNames
    /\ channel_type \in {"InterProcess", "InterThread"}
    /\ NoEndpoints

RendezvousNext ==
    \/ \E e \in Endpoints : \E p \in ParametersOf(e) : ShmOpen(e, p)
    \/ \E e \in Endpoints : ShmMap(e)
    \/ \E e \in Endpoints : \E p \in ParametersOf(e) : InterThreadInitialize(e, p)
    \/ \E e \in Endpoints : SemWait(e)
    \/ \E e \in Endpoints : PrepareHeader(e)
    \/ \E e \in Endpoints : CreateReturn(e)
    \/ \E e \in Endpoints : ConnectCall(e)
    \/ \E e \in Endpoints : Connect(e)
    \/ \E e \in Endpoints : IsConnected(e)
    \/ \E e \in Endpoints : Destructor(e)
    \/ \E e \in Endpoints : DestroyStorage(e)

\* The rendezvous on a channel the producers ask for in
\* single_producer_single_consumer mode (lock-free engine); the consumer tries
\* every choice.
SpscParameters == [BaseParameters EXCEPT !.single_producer_single_consumer_mode = TRUE]

SpscParametersOf(e) == IF Role(e) = "consumer" THEN ParameterChoices ELSE {SpscParameters}

SpscRendezvousNext ==
    \/ \E e \in Endpoints : \E p \in SpscParametersOf(e) : ShmOpen(e, p)
    \/ \E e \in Endpoints : ShmMap(e)
    \/ \E e \in Endpoints : \E p \in SpscParametersOf(e) : InterThreadInitialize(e, p)
    \/ \E e \in Endpoints : SemWait(e)
    \/ \E e \in Endpoints : PrepareHeader(e)
    \/ \E e \in Endpoints : CreateReturn(e)
    \/ \E e \in Endpoints : ConnectCall(e)
    \/ \E e \in Endpoints : Connect(e)
    \/ \E e \in Endpoints : IsConnected(e)
    \/ \E e \in Endpoints : Destructor(e)
    \/ \E e \in Endpoints : DestroyStorage(e)

SpscRendezvousSpec == RendezvousInit /\ [][SpscRendezvousNext]_vars

\* Steps of endpoint e inside Create, Connect or its destruction (not the calls
\* themselves): the scheduler runs every process that can run.
EndpointStep(e) ==
    \/ ShmMap(e) \/ SemWait(e) \/ PrepareHeader(e) \/ CreateReturn(e)
    \/ Connect(e) \/ DestroyStorage(e)

RendezvousSpec == RendezvousInit /\ [][RendezvousNext]_vars

RendezvousFairSpec == RendezvousSpec /\ \A e \in Endpoints : WF_vars(EndpointStep(e))

\* ------------------------------------------------------------ properties
Records(log) == {log[i][1] : i \in 1..Len(log)}
SentRecords == {sent[i] : i \in 1..Len(sent)}

\* Locked engine: the records in the m_count slots starting at m_read_index.
UnreadLocked == {m_ring_buffer[(m_read_index + j) % m_queue_length] : j \in 0..m_count - 1}

\* The endpoints of the given threads are dropped: none of them calls again.
Dropped(ts) == \A t \in ts : pc[t] = "done"

\* C1: on the locked engine 0 <= m_count <= m_queue_length in every reachable
\* state, whatever the interleaving of PushFront / PopBack and their timeouts.
C1_CountInRange ==
    engine = "locked" => (0 <= m_count /\ m_count <= m_queue_length)

\* C1 witness: the queue has filled up after a record was already taken out,
\* with timed and untimed calls mixed.
C1_Witness ==
    /\ engine = "locked"
    /\ m_count = m_queue_length
    /\ Len(received) > 0
    /\ any_finite
    /\ \E t \in Threads : result[t] = "Timeout"

\* C2: on the locked engine with several producers and consumers, every record
\* whose PushFront succeeded is either still unread in the queue or was returned
\* by exactly one PopBack; no PopBack returns a record that was never put.
C2_ExactlyOnce ==
    engine = "locked" =>
        /\ \A i \in 1..Len(received) : received[i][1] \in SentRecords
        /\ \A i, j \in 1..Len(received) : received[i][1] = received[j][1] => i = j
        /\ \A k \in 1..Len(sent) : sent[k] \in Records(received) \cup UnreadLocked
        /\ \A k \in 1..Len(sent) : ~(sent[k] \in Records(received) /\ sent[k] \in UnreadLocked)

\* C2 witness: two producers have sent and two consumers have each received.
C2_Witness ==
    /\ engine = "locked"
    /\ \E i, j \in 1..Len(sent) : sent[i][1] # sent[j][1]
    /\ \E i, j \in 1..Len(received) : received[i][2] # received[j][2]

\* C3: locked engine FIFO: in the order in which the calls take effect, the
\* k-th successful PopBack returns the record of the k-th successful PushFront.
C3_Fifo ==
    engine = "locked" =>
        /\ Len(received) <= Len(sent)
        /\ \A k \in 1..Len(received) : received[k][1] = sent[k]

\* C3 witness: two records of one producer were received, by different consumers.
C3_Witness ==
    /\ engine = "locked"
    /\ Len(received) >= 2
    /\ sent[1][1] = sent[2][1]
    /\ received[1][2] # received[2][2]

\* C4: lock-free engine, one producer and one consumer, INFINITE_TIMEOUT only:
\* the records returned by PopBack are, in order, the records passed to
\* PushFront, and the unread ones sit in the slots from m_head on.
C4_LockFreeRoundTrip ==
    (engine = "lockfree" /\ ~any_finite) =>
        /\ Len(received) <= Len(sent)
        /\ \A k \in 1..Len(received) : received[k][1] = sent[k]
        /\ \A j \in 1..(Len(sent) - Len(received)) :
              m_ring_buffer[(m_head + j - 1) % m_internal_queue_length] = sent[Len(received) + j]

\* C4 witness: with queue_length 1 three records went through (every slot reused).
C4_Witness ==
    /\ engine = "lockfree"
    /\ ~any_finite
    /\ m_queue_length = 1
    /\ Len(received) = 3

\* C5: lock-free engine, any timeouts: m_head and m_tail are in
\* [0, m_internal_queue_length) and (m_tail - m_head) mod m_internal_queue_length
\* is the number of successful PushFronts minus the number of successful
\* PopBacks, which lies in 0..m_queue_length.
C5_HeadTailCount ==
    engine = "lockfree" =>
        /\ m_head \in 0..m_internal_queue_length - 1
        /\ m_tail \in 0..m_internal_queue_length - 1
        /\ (m_tail - m_head) % m_internal_queue_length = Len(sent) - Len(received)
        /\ Len(sent) - Len(received) \in 0..m_queue_length

\* C6: capacity is m_queue_length on both engines: the successful PushFronts
\* never outnumber the PopBacks that took a record by more than m_queue_length
\* (of m_queue_length + 1 PushFronts without a PopBack the last one does not
\* succeed).
C6_Capacity ==
    Len(sent) - Len(received) <= m_queue_length

\* C7: locked engine: a PushFront with a finite timeout that finds the queue
\* full, while no consumer calls PopBack any more, returns Timeout.
C7_TimedPutReturns ==
    \A p \in Producers :
        (/\ engine = "locked"
         /\ pc[p] \in {"wait", "blocked", "reacquire"}
         /\ timeout_duration[p] # INFINITE_TIMEOUT
         /\ m_count = m_queue_length
         /\ Dropped(Consumers))
        ~> (pc[p] = "idle" /\ result[p] = "Timeout")

\* C8: locked engine: a PopBack with a finite timeout that finds the queue
\* empty, while no producer calls PushFront any more, returns Timeout.
C8_TimedGetReturns ==
    \A c \in Consumers :
        (/\ engine = "locked"
         /\ pc[c] \in {"wait", "blocked", "reacquire"}
         /\ timeout_duration[c] # INFINITE_TIMEOUT
         /\ m_count = 0
         /\ Dropped(Producers))
        ~> (pc[c] = "idle" /\ result[c] = "Timeout")

\* C9: lock-free engine: once the busy-wait of a timed PushFront has ended on
\* the timer with the queue full, no slot is written, m_tail keeps its value
\* and the call returns Timeout.
C9_PutTimeoutNoMutation ==
    [][\A p \in Producers :
          (engine = "lockfree" /\ expired[p]) =>
              /\ m_ring_buffer' = m_ring_buffer
              /\ m_tail' = m_tail
              /\ (pc'[p] = "idle" => result'[p] = "Timeout")]_vars

\* C10: lock-free engine: once the busy-wait of a timed PopBack has ended on
\* the timer with the queue empty, nothing is copied into the destination,
\* m_head keeps its value and the call returns Timeout.
C10_GetTimeoutNoMutation ==
    [][\A c \in Consumers :
          (engine = "lockfree" /\ expired[c]) =>
              /\ element'[c] = element[c]
              /\ m_head' = m_head
              /\ (pc'[c] = "idle" => result'[c] = "Timeout")]_vars

\* C11: locked engine: a PushFront or PopBack that returns an error (Timeout or
\* SyncPrimitiveError from the timed mutex acquisition) leaves m_write_index,
\* m_read_index, m_count and every slot as they were, and the caller does not
\* hold the engine mutex after the return.
C11_ErrorNoEffect ==
    [][\A t \in Threads :
          (/\ engine = "locked"
           /\ pc[t] = "idle" /\ pc'[t] = "idle"
           /\ ncalls' = ncalls + 1
           /\ result'[t] \in {"Timeout", "SyncPrimitiveError"}) =>
              /\ m_write_index' = m_write_index
              /\ m_read_index' = m_read_index
              /\ m_count' = m_count
              /\ m_ring_buffer' = m_ring_buffer
              /\ m_mutex' # t]_vars

\* C11 witness: with a record in the queue, one call has returned Timeout and
\* another SyncPrimitiveError.
C11_Witness ==
    /\ engine = "locked"
    /\ m_count > 0
    /\ \E t, u \in Threads : result[t] = "Timeout" /\ result[u] = "SyncPrimitiveError"

\* --------------------------------------------- rendezvous properties
\* Endpoints that exist: Create has returned them and they are not yet destroyed.
Live(e) == ep[e] \in {"live", "connecting"}

\* No Create and no destruction is under way.
Settled == \A e \in Endpoints : ep[e] \in {"idle", "live", "connecting", "failed", "dropped"}

\* The live endpoints of a role attached to object o.
LiveOn(o, role) == {e \in Endpoints : Live(e) /\ Role(e) = role /\ m_storage[e] = o}

\* The four parameters stored in a header.
Stored(h) == <<h.queue_length, h.element_size_in_bytes, h.element_alignment,
               h.single_producer_single_consumer_mode>>

C13_MismatchIsChannelError ==
    \A e \in Endpoints :
        (/\ ep[e] = "failing"
         /\ Header(e).registered
         /\ ~Validate(Header(e), params[e])) => status[e] = "ChannelError"

\* C14: a Create that fails leaves the stored header, the counters and the
\* named backing object as they were: the step that completes the failed
\* Create changes neither the header nor what the channel name resolves to.
C14_FailedCreateNoEffect ==
    [][\A e \in Endpoints :
          (ep[e] # "failed" /\ ep'[e] = "failed") =>
              /\ named_object' = named_object
              /\ header' = header]_vars

\* C15: two endpoints that are live at the same time and were created with the
\* same name, channel type and parameters are attached to the same header and
\* slot region, whatever was created or dropped before.
C15_SameRegion ==
    \A e, f \in Endpoints :
        (Live(e) /\ Live(f) /\ params[e] = params[f]) => m_storage[e] = m_storage[f]

\* C16: inter-process: the name is unlinked only by the drop after which both
\* counters of the region are zero; while an endpoint is live the name
\* resolves to the region that endpoint has mapped.
C16_UnlinkByLastDrop ==
    [][/\ (named_object # NoObject /\ named_object' = NoObject) =>
            /\ \E e \in Endpoints : ep[e] = "dropping" /\ ep'[e] = "dropped"
            /\ header'[named_object].producer_count = 0
            /\ header'[named_object].consumer_count = 0
       /\ \A e \in Endpoints : (Live(e) /\ ep'[e] = ep[e]) => named_object' = m_storage[e]]_vars

\* C17: when no Create or drop is in progress, producer_count and
\* consumer_count of every header equal the numbers of live producer and
\* consumer endpoints attached to it; neither counter is ever below zero.
C17_CountersAccurate ==
    \A o \in Objects :
        /\ header[o].producer_count >= 0
        /\ header[o].consumer_count >= 0
        /\ Settled =>
              /\ header[o].producer_count = Cardinality(LiveOn(o, "producer"))
              /\ header[o].consumer_count = Cardinality(LiveOn(o, "consumer"))

\* C17 witness: nothing in progress, two producers live on one region, the
\* consumer was created and dropped again.
C17_Witness ==
    /\ Settled
    /\ ep["e2"] = "dropped"
    /\ \E o \in Objects : Cardinality(LiveOn(o, "producer")) = 2

\* C18: Connect returns only on a non-zero peer counter and never with an
\* error, and an endpoint does not stay inside Connect for ever while an
\* endpoint of the peer role is live for ever.
C18_ConnectReturns ==
    \A e, f \in Endpoints :
        Role(e) # Role(f) => []<>(ep[e] # "connecting" \/ ~Live(f))

C20_SurvivorConnects ==
    \A e, f \in {"e1", "e2"} :
        (e # f /\ ep[e] = "connecting" /\ connected[f])
            ~> (connected[e] \/ ep["e3"] # "idle")

\* C21: lock-free engine: every zero-copy operation returns RingBufferError,
\* in whatever state it is called, and leaves m_head, m_tail and every slot
\* unchanged.  (A call that returns without leaving "idle" is a zero-copy call.)
C21_ZeroCopyUnsupported ==
    [][\A t \in Threads :
          (/\ engine = "lockfree"
           /\ pc[t] = "idle" /\ pc'[t] = "idle"
           /\ result'[t] # result[t]) =>
              /\ result'[t] = "RingBufferError"
              /\ m_head' = m_head
              /\ m_tail' = m_tail
              /\ m_ring_buffer' = m_ring_buffer]_vars

\* C21 witness: producer and consumer both got RingBufferError from a zero-copy
\* operation while a record was waiting in the queue and one had gone through.
C21_Witness ==
    /\ engine = "lockfree"
    /\ result["p1"] = "RingBufferError"
    /\ result["c1"] = "RingBufferError"
    /\ m_head # m_tail
    /\ Len(received) > 0

\* C22: on the locked engine a ReleaseFrontElementPtr given a pointer that is
\* not the current write slot, and a ReleaseBackElementPtr given a pointer that
\* is not the current read slot, return the ring-buffer error, leave
\* m_write_index, m_read_index and m_count as they were, and signal no
\* condition variable (no waiter is woken).
C22_MismatchedReleaseNoEffect ==
    [][\A t \in Threads : \A ptr \in SlotPointers :
        (\/ ReleaseFrontElementPtr(t, ptr) /\ ptr # getBufferSlot(m_write_index)
         \/ ReleaseBackElementPtr(t, ptr) /\ ptr # getBufferSlot(m_read_index))
        => /\ result'[t] = "RingBufferError"
           /\ UNCHANGED <<m_write_index, m_read_index, m_count, pc,
                          m_not_full_condition_variable, m_not_empty_condition_variable>>]_vars

\* C22 witness: the producer, holding the write slot, got the error for a
\* release with the other slot's pointer while a consumer waits.
C22_Witness ==
    /\ engine = "locked"
    /\ pc["p1"] = "used"
    /\ result["p1"] = "RingBufferError"
    /\ m_count = 1
    /\ \E c \in Consumers : pc[c] = "zc_blocked" \/ pc[c] = "blocked"

\* What PushFront does to the engine when thread t enqueues: the write slot
\* holds t's record, m_write_index advances modulo m_queue_length, m_count is
\* incremented, the mutex t held is released, nothing else of the queue moves.
Enqueued(t) ==
    /\ m_ring_buffer'[getBufferSlot(m_write_index)] = element[t]
    /\ \A i \in DOMAIN m_ring_buffer :
          i # getBufferSlot(m_write_index) => m_ring_buffer'[i] = m_ring_buffer[i]
    /\ m_write_index' = (m_write_index + 1) % m_queue_length
    /\ m_count' = m_count + 1
    /\ m_mutex = t /\ m_mutex' = NoThread
    /\ sent' = Append(sent, element[t])
    /\ UNCHANGED <<m_read_index, received, m_not_full_condition_variable,
                   m_not_empty_condition_variable>>

\* What PopBack does to the engine when thread t dequeues: t has the record of
\* the read slot, m_read_index advances, m_count is decremented, the mutex is
\* released.
Dequeued(t) ==
    /\ element'[t] = m_ring_buffer[getBufferSlot(m_read_index)]
    /\ m_read_index' = (m_read_index + 1) % m_queue_length
    /\ m_count' = m_count - 1
    /\ m_mutex = t /\ m_mutex' = NoThread
    /\ received' = Append(received, <<m_ring_buffer[getBufferSlot(m_read_index)], t>>)
    /\ UNCHANGED <<m_ring_buffer, m_write_index, sent, m_not_full_condition_variable,
                   m_not_empty_condition_variable>>

\* Thread t signals condition variable cv (other is the second one): one
\* waiter, if there is any, leaves cv and has to take the mutex again.
Signalled(t, cv, other) ==
    /\ UNCHANGED <<engine_vars, m_mutex, other>>
    /\ IF cv = {}
       THEN cv' = cv /\ \A x \in Threads \ {t} : pc'[x] = pc[x]
       ELSE \E w \in cv :
               /\ cv' = cv \ {w}
               /\ pc'[w] \in {"reacquire", "zc_reacquire"}
               /\ \A x \in Threads \ {t, w} : pc'[x] = pc[x]

\* C23: on the locked engine the zero-copy path changes the engine exactly as
\* the copying call does.  GetFrontElementPtr hands out the write slot, the
\* record written through it lands in that slot, and ReleaseFrontElementPtr
\* with that pointer advances m_write_index modulo m_queue_length, increments
\* m_count, releases the mutex and then signals not-empty, as PushFront does;
\* GetBackElementPtr / ReleaseBackElementPtr likewise do what PopBack does.
C23_ZeroCopyAsCopy ==
    [][\A t \in Threads :
        /\ (t \in Producers /\ pc[t] = "holding" /\ pc'[t] = "used")
              => /\ current[t] = getBufferSlot(m_write_index)
                 /\ m_ring_buffer' = [m_ring_buffer EXCEPT ![getBufferSlot(m_write_index)] = element[t]]
        /\ (t \in Consumers /\ pc[t] = "holding" /\ pc'[t] = "used")
              => /\ current[t] = getBufferSlot(m_read_index)
                 /\ element'[t] = m_ring_buffer[getBufferSlot(m_read_index)]
        /\ (t \in Producers /\ pc[t] \in {"used", "wait"} /\ pc'[t] \in {"zc_signal", "signal"})
              => Enqueued(t)
        /\ (t \in Consumers /\ pc[t] \in {"used", "wait"} /\ pc'[t] \in {"zc_signal", "signal"})
              => Dequeued(t)
        /\ (t \in Producers /\ pc[t] \in {"zc_signal", "signal"} /\ pc'[t] = "idle")
              => Signalled(t, m_not_empty_condition_variable, m_not_full_condition_variable)
        /\ (t \in Consumers /\ pc[t] \in {"zc_signal", "signal"} /\ pc'[t] = "idle")
              => Signalled(t, m_not_full_condition_variable, m_not_empty_condition_variable)]_vars

\* C23 witness: a consumer's zero-copy release has just dequeued a record while
\* the producer waits inside GetFrontElementPtr for the slot.
C23_Witness ==
    /\ engine = "locked"
    /\ pc["c1"] = "zc_signal"
    /\ pc["p1"] = "zc_blocked"
    /\ Len(received) = 1
    /\ Len(sent) = 1

\* The threads inside the critical section of the locked engine: past the
\* lock of PushFront / PopBack / Get*ElementPtr and not yet unlocked, which
\* for the zero-copy calls lasts from the acquire to the matching release.
InCriticalSection == {t \in Threads : pc[t] \in {"wait", "zc_wait", "holding", "used"}}

\* A step in which thread u completes the protected part of a PushFront,
\* PopBack or Get*ElementPtr.
Completes(u) ==
    /\ pc'[u] \in {"signal", "zc_signal", "holding"}
    /\ pc'[u] # pc[u]

\* C29: on the locked engine at most one thread at a time is in the critical
\* section and it holds m_mutex; every step that changes a slot, m_write_index,
\* m_read_index or m_count is taken with the mutex held; and while a thread is
\* between its successful Get*ElementPtr and the matching release no other
\* thread's PushFront, PopBack or Get*ElementPtr completes.
C29_Serialized ==
    /\ [](engine = "locked" =>
            /\ Cardinality(InCriticalSection) <= 1
            /\ \A t \in InCriticalSection : m_mutex = t)
    /\ [][engine = "locked" =>
            /\ (<<m_ring_buffer, m_write_index, m_read_index, m_count>>' #
                    <<m_ring_buffer, m_write_index, m_read_index, m_count>>)
                  => m_mutex \in InCriticalSection
            /\ \A t \in Threads : pc[t] \in {"holding", "used"}
                  => \A u \in Threads \ {t} : ~Completes(u)]_vars

\* C29 witness: the producer has written through the pointer it holds while a
\* consumer that was signalled earlier still waits for the mutex.
C29_Witness ==
    /\ engine = "locked"
    /\ pc["p1"] = "used"
    /\ m_ring_buffer[current["p1"]] = element["p1"]
    /\ \E c \in Consumers : pc[c] \in {"reacquire", "zc_reacquire"}
    /\ m_count = 1

\* C30: after a zero-copy release failed on a pointer mismatch the caller still
\* holds m_mutex: no other thread gets past the lock of its PushFront, PopBack
\* or Get*ElementPtr (a call with INFINITE_TIMEOUT stays blocked) until the
\* caller's release with the matching pointer unlocks.
C30_MismatchKeepsMutex ==
    [][\A t \in Threads :
        (engine = "locked" /\ pc[t] = "used" /\ result[t] = "RingBufferError")
        => /\ m_mutex = t
           /\ m_mutex' # t => pc'[t] = "zc_signal"
           /\ \A u \in Threads \ {t} :
                 /\ pc'[u] \in {"wait", "zc_wait", "holding", "used"} => pc'[u] = pc[u]
                 /\ (pc[u] # pc'[u] /\ pc[u] = "idle" /\ pc'[u] # "done")
                       => timeout_duration'[u] # INFINITE_TIMEOUT]_vars

\* C30 witness: a consumer's mismatched release has failed while the other
\* consumer, woken inside an untimed call, waits for the mutex.
C30_Witness ==
    /\ engine = "locked"
    /\ pc["c1"] = "used"
    /\ result["c1"] = "RingBufferError"
    /\ m_mutex = "c1"
    /\ pc["c2"] \in {"reacquire", "zc_reacquire"}
    /\ timeout_duration["c2"] = INFINITE_TIMEOUT

\* Only producer p1 and consumer c1 have passed records so far.
OneProducerOneConsumer ==
    /\ \A k \in 1..Len(sent) : sent[k][1] = "p1"
    /\ \A k \in 1..Len(received) : received[k][2] = "c1"

\* C25: locked engine, one producer and one consumer that repeat a call that
\* returned Timeout: the records received are, in order and without a
\* duplicate or a gap, the records sent (the k-th record received is the
\* producer's k-th record, the rest is still queued), and a call that returns
\* Timeout has neither enqueued nor dequeued anything.
C25_RetryKeepsSequence ==
    /\ []((engine = "locked" /\ OneProducerOneConsumer) =>
            /\ \A k \in 1..Len(sent) : sent[k] = <<"p1", k>>
            /\ \A k \in 1..Len(received) : received[k] = <<<<"p1", k>>, "c1">>
            /\ Len(sent) - Len(received) = m_count)
    /\ [][\A t \in {"p1", "c1"} :
            (engine = "locked" /\ result'[t] = "Timeout" /\ ncalls' # ncalls)
                => UNCHANGED <<sent, received, m_count, m_ring_buffer>>]_vars

\* C25 witness: the producer's call has returned Timeout after one of its
\* records was received and a second one enqueued, with only p1 and c1 at work.
C25_Witness ==
    /\ engine = "locked"
    /\ OneProducerOneConsumer
    /\ result["p1"] = "Timeout"
    /\ Len(sent) = 2
    /\ Len(received) = 1
    /\ pc["p2"] = "idle" /\ pc["c2"] = "idle"

\* C24: for an inter-thread channel no Create fails on account of the channel
\* name, whether or not the name begins with '/': in particular with a name
\* that does not begin with '/' no Create ends with the name error.
C24_InterThreadAnyName ==
    (channel_type = "InterThread" /\ ~BeginsWithSlash(channel_name)) =>
        \A e \in Endpoints : status[e] # "SharedBufferError"

\* The endpoints whose Create is between sem.Wait() and the sem.Post() of the
\* Defer in PrepareHeader.
TokenHolders == {e \in Endpoints : ep[e] = "token"}

C27_IncrementUnderToken ==
    [][\A e \in Endpoints :
          (ep[e] \notin {"live", "connecting"} /\ ep'[e] = "live")
              => e \in TokenHolders]_vars

UnreadSlots == {getBufferSlot((m_read_index + j) % m_queue_length) : j \in 0..m_count - 1}

\* C38: on the locked engine m_write_index and m_read_index stay in
\* [0, m_queue_length) and (m_write_index - m_read_index) mod m_queue_length
\* equals m_count mod m_queue_length; the unread records are, in order, the
\* m_count slots from m_read_index on, and no step writes a slot that holds an
\* unread record.
C38_IndexInvariant ==
    /\ [](engine = "locked" =>
            /\ m_write_index \in 0..m_queue_length - 1
            /\ m_read_index \in 0..m_queue_length - 1
            /\ (m_write_index - m_read_index) % m_queue_length = m_count % m_queue_length
            /\ m_count = Len(sent) - Len(received)
            /\ \A j \in 0..m_count - 1 :
                  m_ring_buffer[getBufferSlot((m_read_index + j) % m_queue_length)]
                      = sent[Len(received) + j + 1])
    /\ [][engine = "locked" =>
            \A i \in DOMAIN m_ring_buffer :
                m_ring_buffer'[i] # m_ring_buffer[i] => i \notin UnreadSlots]_vars

\* C38 witness: a full queue of two slots whose oldest record sits in the
\* second slot (both indices have wrapped past it).
C38_Witness ==
    /\ engine = "locked"
    /\ m_queue_length = 2
    /\ m_count = 2
    /\ m_read_index = 1
    /\ m_write_index = 1
    /\ Len(received) >= 1

\* ------------------------------------------------- layout properties
\* The smallest multiple of a that is >= x.
AlignUp(x, a) == ((x + a - 1) \div a) * a

\* C36: for every power-of-two element_alignment and each header size
\* GetRingBufferSlotsOffset returns align_up(sizeof(header), element_alignment),
\* the smallest multiple of the alignment that is >= sizeof(header), also when
\* sizeof(header) is itself a multiple of the alignment.
C36_OffsetIsAlignUp ==
    layout.state = "returned" =>
        /\ layout.offset =
              AlignUp(SizeofChannelHeader(layout.single_producer_single_consumer_mode),
                      layout.element_alignment)
        /\ layout.offset % layout.element_alignment = 0
        /\ layout.offset >= SizeofChannelHeader(layout.single_producer_single_consumer_mode)

\* C37: for every element_alignment that is a power of two (1, 2, 4, ...) the
\* assertion of GetRingBufferSlotsOffset holds and Create proceeds.
C37_AssertionHolds ==
    layout.state # "trapped"

\* C34: on a header in single_producer_single_consumer mode at most one
\* producer endpoint and at most one consumer endpoint are live at any time:
\* Create lets no second producer (or consumer) attach to the lock-free engine.
C34_SoleProducerSoleConsumer ==
    \A o \in Objects :
        (Registered(header[o]) /\ header[o].single_producer_single_consumer_mode) =>
            /\ Cardinality(LiveOn(o, "producer")) <= 1
            /\ Cardinality(LiveOn(o, "consumer")) <= 1

\* The endpoints that have the region of the name mapped (Initialize of their
\* backing storage succeeded and the storage is not yet destroyed).
Mapping == {e \in Endpoints : ep[e] \in {"mapped", "token", "prepared", "failing", "live",
                                         "connecting", "dropping"}}

\* C35: of two Creates on one inter-process channel name that ask for
\* different region sizes at most one gets a mapping, whatever the
\* interleaving: never do two endpoints have the same named object mapped with
\* different sizes.
C35_OneSizePerObject ==
    channel_type = "InterProcess" =>
        \A e, f \in Mapping :
            m_storage[e] = m_storage[f] => GetBufferSize(params[e]) = GetBufferSize(params[f])

\* The endpoints whose Create has succeeded, now or in the past.
Created == {e \in Endpoints : ep[e] \in {"live", "connecting", "dropping", "dropped"}}

SlotRegionEnd(h) ==
    GetRingBufferSlotsOffset(h.single_producer_single_consumer_mode, h.element_alignment)
        + (IF h.single_producer_single_consumer_mode THEN h.queue_length + 1 ELSE h.queue_length)
            * h.element_size_in_bytes

\* C40: for every header that becomes registered the slots lie inside the
\* backing region: slot offset + n_slots * element size <= size of the region,
\* for every sequence of Creates, also when an inter-thread Create finds an
\* existing vector for its name.
C40_SlotsInsideRegion ==
    \A o \in Objects : Registered(header[o]) => SlotRegionEnd(header[o]) <= object_size[o]

\* ------------------------------------------------ liveness of balanced use
\* Every call of the balanced workload has been issued and has returned.
AllReturned ==
    /\ \A t \in Threads : pc[t] = "idle"
    /\ Len(sent) = CallsEach
    /\ Len(received) = CallsEach

\* C31: locked engine, INFINITE_TIMEOUT, as many PopBacks as PushFronts: under
\* fair scheduling every call returns; no thread stays in pthread_cond_wait
\* for a slot or a record that is there (no lost wake-up, no deadlock), for
\* every queue length.
C31_LockedBalancedTerminates ==
    /\ (engine = "locked") ~> (engine = "locked" /\ AllReturned)
    /\ \A t \in Threads :
          (engine = "locked" /\ pc[t] = "blocked"
              /\ (IF t \in Producers THEN NotFull ELSE NotEmpty))
          ~> (pc[t] # "blocked")

\* C31 witness: both producers' calls have gone through a full queue of one
\* slot and everything has returned.
C31_Witness ==
    /\ engine = "locked"
    /\ AllReturned
    /\ m_queue_length = 1
    /\ \E i, j \in 1..Len(sent) : sent[i][1] # sent[j][1]
    /\ \E i, j \in 1..Len(received) : received[i][2] # received[j][2]

\* C32: lock-free engine, one producer and one consumer, INFINITE_TIMEOUT, n
\* PushFronts and n PopBacks: under fair scheduling both terminate, for every
\* queue length including 1.
C32_LockFreeBalancedTerminates ==
    (engine = "lockfree") ~> (engine = "lockfree" /\ AllReturned)

\* C32 witness: with queue_length 1 all records went through and both threads
\* are back.
C32_Witness ==
    /\ engine = "lockfree"
    /\ AllReturned
    /\ m_queue_length = 1
    /\ Len(received) >= 3

\* Lock-free engine: thread t is between the end of its busy-wait and the
\* store of its index, the interval in which its memcpy on slot current[t]
\* takes place.
Copying(t) == pc[t] \in {"copy", "store"}

\* Lock-free engine: the slots whose record has been published (m_tail stored)
\* and not yet released by the consumer (m_head stored).
UnreadLockFree ==
    {getBufferSlot_((m_head + j) % m_internal_queue_length) :
        j \in 0..((m_tail - m_head) % m_internal_queue_length) - 1}

\* C33: lock-free engine, one producer and one consumer, INFINITE_TIMEOUT, the
\* memcpy being a step of its own: the consumer never copies out of the slot
\* the producer is copying into, and the producer never writes a slot whose
\* record the consumer has not completely copied out (m_head not yet moved
\* past it).
C33_NoConcurrentSlotAccess ==
    /\ []((engine = "lockfree" /\ ~any_finite) =>
            /\ \A p \in Producers, c \in Consumers :
                  (Copying(p) /\ Copying(c)) => getBufferSlot_(current[p]) # getBufferSlot_(current[c])
            /\ \A p \in Producers : Copying(p) => getBufferSlot_(current[p]) \notin UnreadLockFree)
    /\ [][(engine = "lockfree" /\ ~any_finite) =>
            \A i \in DOMAIN m_ring_buffer :
                m_ring_buffer'[i] # m_ring_buffer[i] => i \notin UnreadLockFree]_vars

\* C33 witness: with queue_length 2 the producer copies its next record into
\* one slot while the consumer copies an earlier record out of another.
C33_Witness ==
    /\ engine = "lockfree"
    /\ ~any_finite
    /\ m_queue_length = 2
    /\ pc["p1"] = "copy"
    /\ pc["c1"] = "copy"
    /\ Len(received) >= 1
====
